---- MODULE Spec2Model ----
(***************************************************************************)
(* Model of get_collection.py: the recursive export of a Firestore         *)
(* collection into a tree of JSON files.                                   *)
(*                                                                         *)
(* The store is a two-level tree: the root collection "c" holds documents, *)
(* a document holds subcollections, a subcollection holds documents.  A    *)
(* path is the sequence of its segments (<<"c","a","s","d">> is the        *)
(* document c/a/s/d); file names are strings built with \o exactly as the  *)
(* code builds them, so that two names the code makes equal are equal.     *)
(* The file system keeps files (name -> content) and directories apart,    *)
(* as os.makedirs and open do.                                             *)
(***************************************************************************)
EXTENDS Integers, Sequences, FiniteSets, TLC

\* ---------------------------------------------------------------- bounds
\* Most documents a store holds.
MaxDocs == 3
\* Most operations the environment makes fail, over the two runs together.
MaxFaults == 1

\* ----------------------------------------------------------- identifiers
\* --collection and --output of main().
RootCollection == <<"c">>
OutputDir == "out"
\* Document ids of the root collection, ids of subcollections, and ids of
\* the documents of a subcollection.
RootDocIds == {"a", "a.json", "a_subcollections"}
SubIds == {"s", "t"}
LeafDocIds == {"d"}
\* The order in which the store hands out ids: stream() and collections()
\* list by ascending id (byte order: "." < "_").
IdOrder == <<"a", "a.json", "a_subcollections", "d", "s", "t">>

AllDocPaths ==
  {RootCollection \o <<x>> : x \in RootDocIds}
    \cup {RootCollection \o <<x, s, y>> : x \in RootDocIds, s \in SubIds, y \in LeafDocIds}

VARIABLES
  listed,     \* store: the documents their collection's stream() lists
  missing,    \* store: listed documents whose snapshot has exists = False
  files,      \* file system: file name -> content
  dirs,       \* file system: directory names
  stack,      \* call stack of process_collection / process_document frames
  phase,      \* "idle", "running", "done": position in retrieve_collection_with_subcollections
  run,        \* 1 for the first export, 2 for the re-run
  faults,     \* operations the environment has made fail so far
  injected,   \* this run: the operations the environment made fail
  errors,     \* this run: nodes whose except clause logged an error
  writeLog,   \* this run: the files opened for writing, in order
  readLog,    \* this run: the store requests, in order
  files1,     \* the files as the first run left them
  injected1   \* the operations the environment made fail in the first run

vars == <<listed, missing, files, dirs, stack, phase, run, faults, injected,
          errors, writeLog, readLog, files1, injected1>>

\* ------------------------------------------------------------ store paths
IsPrefix(p, q) == Len(p) <= Len(q) /\ SubSeq(q, 1, Len(p)) = p
Below(q, p) == Len(p) < Len(q) /\ IsPrefix(p, q)
Parent(p) == SubSeq(p, 1, Len(p) - 1)
Last(p) == p[Len(p)]

\* doc_ref.path / collection_ref.path: the segments joined by "/".
RECURSIVE PathStr(_)
PathStr(p) ==
  IF Len(p) = 1 THEN p[1] ELSE PathStr(Parent(p)) \o "/" \o Last(p)

\* The documents a collection lists, in the store's order.
StreamDocs(c) == SelectSeq(IdOrder, LAMBDA x : c \o <<x>> \in listed)

\* The collections under a document: a collection is there when it holds a
\* document.
HasCollection(d, s) == \E e \in listed : Below(e, d \o <<s>>)

\* ---------------------------------------------------------- file names
\* os.path.join(base_path, *doc_ref.path.split('/'))
DirPath(d) == OutputDir \o "/" \o PathStr(d)
\* f"{dir_path}.json"
FilePath(d) == DirPath(d) \o ".json"
\* f"{dir_path}_subcollections.json"
SubcollectionsPath(d) == DirPath(d) \o "_subcollections.json"
\* os.path.dirname(dir_path) and the directories above it, down from the
\* output directory: what os.makedirs walks.
DirChain(d) ==
  {OutputDir} \cup {OutputDir \o "/" \o PathStr(SubSeq(d, 1, k)) : k \in 1..(Len(d) - 1)}


\* ------------------------------------------------------------ file system
\* os.makedirs(os.path.dirname(dir_path), exist_ok=True) raises when a name
\* on the way is a file (NotADirectoryError, FileExistsError).
MakeDirsOk(d) == \A n \in DirChain(d) : n \notin DOMAIN files

\* open(name, 'w') raises IsADirectoryError on a directory.
OpenOk(ds, name) == name \notin ds

\* Variant: open(name, 'a'), what is written is added to what the file holds.
WrittenAppending(fs, name, v) ==
  IF name \in DOMAIN fs THEN (name :> (fs[name] \o <<v>>)) @@ fs ELSE (name :> <<v>>) @@ fs

\* open(name, 'w') followed by one json.dump: the file holds that one value.
Written(fs, name, v) == (name :> <<v>>) @@ fs

\* doc.to_dict(): the field mapping of a document; each document has its own.
ToDict(d) == <<"fields">> \o d

\* json.dump(value, f, indent=2, ...): the text of the value.
JsonDump(v) == <<"json">> \o v

\* What open() followed by a json.dump that raises leaves in the file.
Truncated == <<"json">>

\* ------------------------------------------------------------- the store
\* Variant: the existence of the snapshot is not looked at.
ExistsAlways(d) == TRUE

\* doc.exists
Exists(d) == d \notin missing

\* get_all_subcollections(doc_ref): [col.id for col in doc_ref.collections()]
get_all_subcollections(d) == SelectSeq(IdOrder, LAMBDA s : s \in SubIds /\ HasCollection(d, s))

Request(op, p) == [op |-> op, path |-> p]

\* Variant: the document is fetched once for exists and once for to_dict.
DocumentReadsTwice(d) == <<Request("get", d), Request("get", d)>>

\* doc = doc_ref.get(): one request for the document.
DocumentReads(d) == <<Request("get", d)>>

WriteEntry(name, d, kind) == [name |-> name, owner |-> d, kind |-> kind]

\* Variant: the manifest is written whether or not there are subcollections.
WritesManifestAlways(subs) == TRUE

\* if subcollections:
WritesManifest(subs) == subs # <<>>

\* Operations of process_document the environment can make fail: the
\* document read, the creation of the data file, json.dump into it, the
\* listing of the subcollections, the creation of the manifest file.
DocFaults == {"get", "open", "dump", "list", "manifest"}

\* ------------------------------------------------------ process_document
\* The body of process_document up to the loop over the subcollections, for
\* document d, with f the operation the environment makes fail ("none": no
\* operation).  outcome is "ok", "missing" (the early return) or "error"
\* (the except clause ran); hit tells whether f was reached.
Result(fs, ds, ws, rs, out, hit, subs) ==
  [files |-> fs, dirs |-> ds, writes |-> ws, reads |-> rs, outcome |-> out,
   hit |-> hit, subs |-> subs]

process_document(d, f) ==
  LET subs == get_all_subcollections(d)
      rs1 == DocumentReads(d)
      ds2 == dirs \cup DirChain(d)
      v == IF f = "dump" THEN Truncated ELSE JsonDump(ToDict(d))
      fs3 == Written(files, FilePath(d), v)
      ws3 == <<WriteEntry(FilePath(d), d, "data")>>
      rs4 == rs1 \o <<Request("collections", d)>>
      fs5 == Written(fs3, SubcollectionsPath(d), JsonDump(subs))
      ws5 == ws3 \o <<WriteEntry(SubcollectionsPath(d), d, "manifest")>>
  IN
  IF f = "get" THEN Result(files, dirs, <<>>, rs1, "error", TRUE, subs)
  ELSE IF ~Exists(d) THEN Result(files, dirs, <<>>, rs1, "missing", FALSE, subs)
  ELSE IF ~MakeDirsOk(d) THEN Result(files, dirs, <<>>, rs1, "error", FALSE, subs)
  ELSE IF f = "open" THEN Result(files, ds2, <<>>, rs1, "error", TRUE, subs)
  ELSE IF ~OpenOk(ds2, FilePath(d)) THEN Result(files, ds2, <<>>, rs1, "error", FALSE, subs)
  ELSE IF f = "dump" THEN Result(fs3, ds2, ws3, rs1, "error", TRUE, subs)
  ELSE IF f = "list" THEN Result(fs3, ds2, ws3, rs4, "error", TRUE, subs)
  ELSE IF ~WritesManifest(subs) THEN Result(fs3, ds2, ws3, rs4, "ok", FALSE, <<>>)
  ELSE IF f = "manifest" THEN Result(fs3, ds2, ws3, rs4, "error", TRUE, subs)
  ELSE IF ~OpenOk(ds2, SubcollectionsPath(d)) THEN Result(fs3, ds2, ws3, rs4, "error", FALSE, subs)
  ELSE Result(fs5, ds2, ws5, rs4, "ok", FALSE, subs)

\* Variant: the loop over the subcollections runs outside the try.
RecurseAlways(res) == res.subs

\* The loop over the subcollections is reached only when nothing before it
\* raised or returned.
Recurse(res) == IF res.outcome = "ok" THEN res.subs ELSE <<>>

\* ------------------------------------------------------------- the stack
\* A frame is a call of process_collection (kind "col": rest are the ids the
\* iterator has still to hand out) or the loop over the subcollections of a
\* process_document call (kind "doc": rest are the subcollections to go).
Frame(kind, p, rest) == [kind |-> kind, path |-> p, rest |-> rest]

\* Variant: calls are queued and run after the caller's loop (breadth-first).
CallQueued(st, fr) == st \o <<fr>>

\* A call runs to its end before its caller goes on.
Call(st, fr) == <<fr>> \o st

\* Variant: the error is raised on to process_collection, whose loop ends.
AbandonCollection(st) == Tail(st)

\* except Exception in process_document: the error is logged and the call
\* returns to the loop of process_collection, which goes on.
AfterDocumentError(st) == st

\* Number of documents the iterator of the collection frame has handed out.
Position(fr) == Len(StreamDocs(fr.path)) - Len(fr.rest)


\* ------------------------------------------------------------------ Init
\* Any store of at most MaxDocs listed documents in which every document of
\* a subcollection has its parent document listed; any of them may turn out
\* not to exist when it is read.  The output directory does not exist yet.
Stores ==
  {L \in SUBSET AllDocPaths :
     /\ Cardinality(L) <= MaxDocs
     /\ \A e \in L : Len(e) > 2 => SubSeq(e, 1, 2) \in L}

Init ==
  /\ listed \in Stores
  /\ missing \in SUBSET listed
  /\ files = << >>
  /\ dirs = {}
  /\ stack = << >>
  /\ phase = "idle"
  /\ run = 1
  /\ faults = 0
  /\ injected = {}
  /\ errors = {}
  /\ writeLog = << >>
  /\ readLog = << >>
  /\ files1 = << >>
  /\ injected1 = {}

\* --------------------------------------------------------------- actions
\* retrieve_collection_with_subcollections up to the call of
\* process_collection: the output directory is made when it is not there,
\* and process_collection asks the store for the root collection's stream.
Enter ==
  /\ dirs' = dirs \cup {OutputDir}
  /\ stack' = Call(<< >>, Frame("col", RootCollection, StreamDocs(RootCollection)))
  /\ readLog' = <<Request("stream", RootCollection)>>
  /\ writeLog' = << >>
  /\ injected' = {}
  /\ errors' = {}
  /\ phase' = "running"
  /\ UNCHANGED <<listed, missing, files, faults>>

\* The first run.
Start ==
  /\ phase = "idle"
  /\ Enter
  /\ UNCHANGED <<run, files1, injected1>>

\* The same command run again on what the first run left.
Rerun ==
  /\ phase = "done"
  /\ run = 1
  /\ Enter
  /\ run' = 2
  /\ files1' = files
  /\ injected1' = injected

\* The iterator of the running process_collection has a document to hand out.
HasNextDocument ==
  /\ phase = "running"
  /\ stack # << >>
  /\ Head(stack).kind = "col"
  /\ Head(stack).rest # << >>

\* That turn, with f the operation of process_document the environment makes
\* fail ("none": no operation).
DocStepWith(f) ==
  /\ HasNextDocument
  /\ LET fr == Head(stack)
         d == fr.path \o <<Head(fr.rest)>>
         below == <<Frame("col", fr.path, Tail(fr.rest))>> \o Tail(stack)
     IN   LET res == process_document(d, f)
              subs == Recurse(res)
          IN /\ f # "none" => (res.hit /\ faults < MaxFaults)
             /\ files' = res.files
             /\ dirs' = res.dirs
             /\ writeLog' = writeLog \o res.writes
             /\ readLog' = readLog \o res.reads
             /\ faults' = IF f = "none" THEN faults ELSE faults + 1
             /\ injected' = IF f = "none" THEN injected ELSE injected \cup {<<f, d, 0>>}
             /\ errors' = IF res.outcome = "error" THEN errors \cup {d} ELSE errors
             /\ stack' = IF subs # << >> THEN Call(below, Frame("doc", d, subs))
                         ELSE IF res.outcome = "error" THEN AfterDocumentError(below)
                         ELSE below
  /\ UNCHANGED <<listed, missing, phase, run, files1, injected1>>

\* One turn of the loop of process_collection: the iterator hands out the
\* next document and process_document runs on it up to its loop over the
\* subcollections.
DocStep == \E f \in {"none"} \cup DocFaults : DocStepWith(f)

\* The stream of a collection raises while process_collection iterates it
\* (before the first document, between two documents or after the last):
\* the except clause of process_collection logs it and the call returns.
IterFail ==
  /\ phase = "running"
  /\ stack # << >>
  /\ Head(stack).kind = "col"
  /\ faults < MaxFaults
  /\ faults' = faults + 1
  /\ injected' = injected \cup {<<"iter", Head(stack).path, Position(Head(stack))>>}
  /\ errors' = errors \cup {Head(stack).path}
  /\ stack' = Tail(stack)
  /\ UNCHANGED <<listed, missing, files, dirs, phase, run, writeLog, readLog, files1, injected1>>

\* The running process_document has a subcollection left to visit.
HasNextSubcollection ==
  /\ phase = "running"
  /\ stack # << >>
  /\ Head(stack).kind = "doc"
  /\ Head(stack).rest # << >>

\* One turn of the loop over the subcollections in process_document:
\* process_collection is called on the next subcollection and asks the
\* store for its stream.
SubcolStep ==
  /\ HasNextSubcollection
  /\ LET fr == Head(stack)
         c == fr.path \o <<Head(fr.rest)>>
         below == <<Frame("doc", fr.path, Tail(fr.rest))>> \o Tail(stack)
     IN /\ stack' = Call(below, Frame("col", c, StreamDocs(c)))
        /\ readLog' = Append(readLog, Request("stream", c))
  /\ UNCHANGED <<listed, missing, files, dirs, phase, run, faults, injected, errors,
                 writeLog, files1, injected1>>

\* The loop of the running call has nothing left.
LoopExhausted ==
  /\ phase = "running"
  /\ stack # << >>
  /\ Head(stack).rest = << >>

\* A loop has nothing left: the call returns.
Return ==
  /\ LoopExhausted
  /\ stack' = Tail(stack)
  /\ UNCHANGED <<listed, missing, files, dirs, phase, run, faults, injected, errors,
                 writeLog, readLog, files1, injected1>>

\* The outermost process_collection has returned.
Returned ==
  /\ phase = "running"
  /\ stack = << >>

\* process_collection has returned to retrieve_collection_with_subcollections,
\* which prints its last line.
Finish ==
  /\ Returned
  /\ phase' = "done"
  /\ UNCHANGED <<listed, missing, files, dirs, stack, run, faults, injected, errors,
                 writeLog, readLog, files1, injected1>>

Next == Start \/ Rerun \/ DocStep \/ IterFail \/ SubcolStep \/ Return \/ Finish

Spec == Init /\ [][Next]_vars


\* ----------------------------------------------- vocabulary of the claims
\* The document exists and so does every document above it.
Reachable(d) ==
  \A k \in 1..Len(d) : k % 2 = 0 => (SubSeq(d, 1, k) \in listed /\ Exists(SubSeq(d, 1, k)))

\* The data file of d is there and holds the field mapping of d.
Exported(d) ==
  /\ FilePath(d) \in DOMAIN files
  /\ files[FilePath(d)] = <<JsonDump(ToDict(d))>>

\* No except clause ran for d or for a document or collection above it.
Unfailed(d) == \A k \in 1..Len(d) : SubSeq(d, 1, k) \notin errors

\* No except clause ran for a document or collection above p.
UnfailedAbove(p) == \A k \in 1..(Len(p) - 1) : SubSeq(p, 1, k) \notin errors

Got(d) == \E i \in DOMAIN readLog : readLog[i] = Request("get", d)
Streamed(c) == \E i \in DOMAIN readLog : readLog[i] = Request("stream", c)
Count(req) == Cardinality({i \in DOMAIN readLog : readLog[i] = req})
WroteData(d) == \E i \in DOMAIN writeLog : writeLog[i].owner = d /\ writeLog[i].kind = "data"

\* The subcollections of the listed documents.
Collections ==
  {c \in {d \o <<s>> : d \in listed, s \in SubIds} : HasCollection(Parent(c), Last(c))}

\* Some step of the run that needs no failure of the environment can be
\* taken (the guard of DocStepWith("none"), SubcolStep, Return or Finish
\* holds): the program is not stuck.
RunCanStep == HasNextDocument \/ HasNextSubcollection \/ LoopExhausted \/ Returned

\* ------------------------------------------------------------------- C1
\* C1: after a run in which the environment made no store read and no file
\* write fail, every existing document reachable from the root collection
\* has its data file, holding its field mapping.
C1_EveryReachableDocumentExported ==
  (phase = "done" /\ injected = {}) =>
    \A d \in listed : Reachable(d) => Exported(d)

\* ------------------------------------------------------------------- C2
\* C2: whatever operations fail, every existing document that did not fail
\* itself and is not below a failed document or collection is exported when
\* the run is done, and a run that is not done can always take its next step.
C2_FailureIsContained ==
  /\ phase = "done" =>
       \A d \in listed : (Reachable(d) /\ Unfailed(d)) => Exported(d)
  /\ phase = "running" => RunCanStep

\* A run is done in which a document failed and a document read after it
\* was exported.
C2_Witness ==
  /\ phase = "done"
  /\ injected # {}
  /\ \E i, j \in DOMAIN readLog :
       /\ i < j
       /\ readLog[i].op = "get" /\ readLog[i].path \in errors
       /\ readLog[j].op = "get" /\ Exported(readLog[j].path)

\* ------------------------------------------------------------------- C3
\* C3: after an error-free run, the manifest file of an exported document is
\* there exactly when the document has a subcollection, and then it lists
\* the names of the document's subcollections.
C3_ManifestIffSubcollections ==
  (phase = "done" /\ injected = {}) =>
    \A d \in listed : WroteData(d) =>
      /\ (SubcollectionsPath(d) \in DOMAIN files) <=> (get_all_subcollections(d) # << >>)
      /\ SubcollectionsPath(d) \in DOMAIN files =>
           files[SubcollectionsPath(d)] = <<JsonDump(get_all_subcollections(d))>>

\* ------------------------------------------------------------------- C4
\* C4: from an empty output directory, an error-free export of a collection
\* of N documents without subcollections leaves exactly N files, the data
\* files of the N documents.
C4_ExactlyNFiles ==
  (phase = "done" /\ run = 1 /\ injected = {} /\ \A d \in listed : Len(d) = 2) =>
    /\ DOMAIN files = {FilePath(d) : d \in listed \ missing}
    /\ Cardinality(DOMAIN files) = Cardinality(listed \ missing)
    /\ \A d \in listed \ missing : Exported(d)

\* An error-free export of three documents without subcollections is done.
C4_Witness ==
  /\ phase = "done" /\ run = 1 /\ injected = {}
  /\ \A d \in listed : Len(d) = 2
  /\ Cardinality(listed \ missing) = 3

\* ------------------------------------------------------------------- C5
\* C5: nothing is written for a listed document that does not exist, and
\* unless the iteration of its collection fails, every other document of
\* the collection is processed.
C5_MissingDocumentSkipped ==
  /\ \A m \in missing : \A i \in DOMAIN writeLog : writeLog[i].owner # m
  /\ phase = "done" =>
       \A m \in missing : (Got(m) /\ Parent(m) \notin errors) =>
         \A e \in listed : Parent(e) = Parent(m) => Got(e)

\* A run is done in which a document was found missing and a document of
\* the same collection, read after it, was exported.
C5_Witness ==
  /\ phase = "done"
  /\ \E i, j \in DOMAIN readLog :
       /\ i < j
       /\ readLog[i].op = "get" /\ readLog[i].path \in missing
       /\ readLog[j].op = "get" /\ Parent(readLog[j].path) = Parent(readLog[i].path)
       /\ Exported(readLog[j].path)

\* ------------------------------------------------------------------- C6
\* C6: a second run in which the store answers as in the first (the same
\* documents, the same operations failing) leaves the same files with the
\* same contents as the first.
C6_RerunLeavesSameFiles ==
  (phase = "done" /\ run = 2 /\ injected = injected1) => files = files1

\* A second run that wrote at least two files is done.
C6_Witness ==
  /\ phase = "done" /\ run = 2 /\ injected = injected1
  /\ Len(writeLog) >= 2

\* ------------------------------------------------------------------- C7
\* C7: within one run no file name is written more than once, data files and
\* manifest files counted together.
C7_NoPathWrittenTwice ==
  \A i, j \in DOMAIN writeLog : i # j => writeLog[i].name # writeLog[j].name

\* ------------------------------------------------------------------- C8
\* C8: the files are written in depth-first pre-order: no file of a document
\* is written after a file of a document below it, a document's data file
\* comes before its manifest, and the writes below one document or one
\* subcollection are not interleaved with writes outside it.
C8_DepthFirstPreOrder ==
  /\ \A i, j \in DOMAIN writeLog : i < j =>
       /\ ~Below(writeLog[i].owner, writeLog[j].owner)
       /\ writeLog[i].owner = writeLog[j].owner =>
            (writeLog[i].kind = "data" /\ writeLog[j].kind = "manifest")
  /\ \A i, j, k \in DOMAIN writeLog : (i < j /\ j < k) =>
       \A n \in 1..Len(writeLog[i].owner) :
         LET t == SubSeq(writeLog[i].owner, 1, n)
         IN IsPrefix(t, writeLog[k].owner) => IsPrefix(t, writeLog[j].owner)

\* A document, then a document below it, then a document that is not below
\* it have been written.
C8_Witness ==
  \E i, j, k \in DOMAIN writeLog :
    /\ i < j /\ j < k
    /\ Below(writeLog[j].owner, writeLog[i].owner)
    /\ ~IsPrefix(writeLog[i].owner, writeLog[k].owner)

C10_EarlyStopCutsSubtree ==
  /\ \A d \in listed : (d \in missing \/ d \in errors) =>
       /\ \A i \in DOMAIN writeLog : ~Below(writeLog[i].owner, d)
       /\ \A i \in DOMAIN readLog : ~Below(readLog[i].path, d)
  /\ phase = "done" =>
       \A d \in listed : (Got(d) /\ d \notin missing /\ d \notin errors) =>
         \A s \in SubIds : HasCollection(d, s) =>
           /\ Streamed(d \o <<s>>)
           /\ (d \o <<s>>) \notin errors =>
                \A e \in listed : Parent(e) = d \o <<s>> => Got(e)

\* A run is done in which the processing of a document that has a
\* subcollection raised.
C10_Witness ==
  /\ phase = "done"
  /\ \E d \in listed : d \in errors /\ Got(d) /\ get_all_subcollections(d) # << >>

====
